---------------------------- MODULE Spec2Model ----------------------------
(***************************************************************************)
(* The iocage Ansible module (lib/ansible/modules/system/iocage.py): the   *)
(* reconciler run_module, the IOCage command wrapper and the listing       *)
(* parser, run against a model of the iocage jail manager.                 *)
(*                                                                         *)
(* One step of the model is one external command (module.run_command) of   *)
(* a run, together with everything run_module does up to the next command. *)
(***************************************************************************)
EXTENDS Integers, Sequences, FiniteSets, TLC

VARIABLES
    jails,    \* manager: jail id -> [present, up, release, props]
    pool,     \* manager: the activated zpool, as 'iocage get -p' prints it
    noise,    \* manager: the rows of its latest 'iocage list -Hl' output that are no jail's
    params,   \* run -> module.params
    pc,       \* run -> position of the run: [op, blk, i]
    result,   \* run -> the result dict of the run
    cmds,     \* run -> the external commands the run has issued, in order
    obs0      \* run -> the manager's state when the run started

vars == <<jails, pool, noise, params, pc, result, cmds, obs0>>

(***************************************************************************)
(* Bounds of the model.                                                    *)
(***************************************************************************)
\* int-typed property values range over 0..MaxInt
MaxInt == 1

\* the runs: run 2 repeats run 1's spec after run 1 has completed
Runs == {1, 2}

(***************************************************************************)
(* Python values.  None is a value of its own; a property value is a str,  *)
(* an int or None, and keeps its type.                                     *)
(***************************************************************************)
None == "<None>"

PyNone == [t |-> "none", s |-> "", n |-> 0]
PyStr(x) == [t |-> "str", s |-> x, n |-> 0]
PyInt(x) == [t |-> "int", s |-> "", n |-> x]

\* truth value of a str-or-None parameter (if jail.name, if iocage.zpool)
TruthyStr(x) == x /= None /\ x /= ""

\* truth value of a property value (if k and v)
Truthy(v) == \/ v.t = "str" /\ v.s /= ""
             \/ v.t = "int" /\ v.n /= 0

\* "%s" % v
Format(v) == IF v.t = "str" THEN v.s
             ELSE IF v.t = "int" THEN ToString(v.n) ELSE "None"

\* stdout.strip() != v, stdout a str: a str never equals an int or None
StrNe(stdout, v) == ~(v.t = "str" /\ v.s = stdout)

(***************************************************************************)
(* main: the argument spec.                                                *)
(***************************************************************************)
\* the options of module_arguments before 'properties' is added
module_arguments == {"zpool", "name", "uuid", "state", "release", "template", "empty"}

\* choices of 'state'
StateChoices == {"present", "absent", "started"}

\* the suboptions of 'properties' the model keeps, in the order of iocage_properties
KeyOrder == <<"exec_timeout", "notes">>
Keys == {KeyOrder[i] : i \in 1..Len(KeyOrder)}

\* the declared type of a property
iocage_properties(k) == IF k = "exec_timeout" THEN "int" ELSE "str"

\* a module that declares no required_one_of
required_one_of_omitted == {}

required_one_of == {{"release", "template", "empty"}}
mutually_exclusive == {{"release", "template", "empty"}}

\* module_arguments.get(k): the option's spec dict, a non-empty dict when declared
ArgSpecTruthy(k) == k \in module_arguments

\* if module_arguments.get('name') and not module_arguments.get('uuid'):
\*     module_arguments['uuid'] = module_arguments['name']
\* The test reads the argument spec, not the caller's parameters; the
\* assignment would replace the spec of 'uuid', never the value of uuid.
UuidSpecReplaced == ArgSpecTruthy("name") /\ ~ArgSpecTruthy("uuid")

\* module.params for the caller's input p: every option as the caller gave it
\* (uuid is not filled in from name, whether or not the branch above is taken)
ModuleParams(p) == p


(***************************************************************************)
(* AnsibleModule(argument_spec, required_one_of, mutually_exclusive): the  *)
(* host framework's check of the caller's parameters.                      *)
(***************************************************************************)
\* whether the caller set option k of the provisioning sources
IsSet(p, k) == IF k = "release" THEN p.release /= None
               ELSE IF k = "template" THEN p.template /= None
               ELSE p.empty

count_terms(terms, p) == Cardinality({k \in terms : IsSet(p, k)})

check_required_one_of(p) == \A terms \in required_one_of : count_terms(terms, p) >= 1

check_mutually_exclusive(p) == \A terms \in mutually_exclusive : count_terms(terms, p) <= 1

\* the constructor returns, or fails the module (fail_json) before main goes on
AnsibleModule(p) == check_mutually_exclusive(p) /\ check_required_one_of(p)

(***************************************************************************)
(* class Jail: the constructor stores its arguments and checks nothing.    *)
(***************************************************************************)
Jail(p) == [name |-> p.name, uuid |-> p.uuid, release |-> p.release,
            template |-> p.template, empty |-> p.empty, state |-> p.state,
            properties |-> p.properties]

\* jail.name if jail.name else jail.uuid
NameOrUuid(jail) == IF TruthyStr(jail.name) THEN jail.name ELSE jail.uuid

(***************************************************************************)
(* The jail manager (the iocage binary), as the commands see it.           *)
(***************************************************************************)
JailIds == {"j1", "u1", "j2"}
JailOrder == <<"j1", "j2", "u1">>

\* the values iocage gives the properties of a jail created without them
DefaultProps == [k \in Keys |-> IF k = "exec_timeout" THEN "60" ELSE "none"]

NoJail == [present |-> FALSE, up |-> FALSE, release |-> "", props |-> DefaultProps]

\* one row of 'iocage list -Hl': the 10 tab-separated fields
\* JID NAME BOOT STATE TYPE RELEASE IP4 IP6 TEMPLATE BASEJAIL
JailRow(id, j) == <<"-", id, "off", IF j.up THEN "up" ELSE "down", "jail",
                    j.release, "-", "-", "-", "no">>

RECURSIVE JailRows(_, _)
JailRows(js, i) ==
    IF i > Len(JailOrder) THEN <<>>
    ELSE (IF js[JailOrder[i]].present
          THEN <<JailRow(JailOrder[i], js[JailOrder[i]])>> ELSE <<>>)
         \o JailRows(js, i + 1)

\* stdout of 'iocage list -Hl', split into lines and each line at the tabs
ListStdout(js, ns) == JailRows(js, 1) \o ns

\* stdout of 'iocage get all <id>', split into lines and each line at the colons
GetAllStdout(j) == [i \in 1..Len(KeyOrder) |-> <<KeyOrder[i], j.props[KeyOrder[i]]>>]

\* a line of fewer than 10 fields, and an empty line ("".split("\t") is [""])
ShortRow == <<"-", "j9", "off">>
BlankRow == <<"">>

(***************************************************************************)
(* IOCage._parse_list_output                                               *)
(***************************************************************************)
\* a parser that counts the fields from 1: name is taken from the JID field
RowDictOffByOne(items) == [jailid |-> items[1], name |-> items[1], boot |-> items[2],
                           state |-> items[3], type |-> items[4], release |-> items[5],
                           ipv4 |-> items[6], ipv6 |-> items[7], template |-> items[8],
                           basejail |-> items[9]]

RowDict(items) == [jailid |-> items[1], name |-> items[2], boot |-> items[3],
                   state |-> items[4], type |-> items[5], release |-> items[6],
                   ipv4 |-> items[7], ipv6 |-> items[8], template |-> items[9],
                   basejail |-> items[10]]

\* [exc, output]: the exception raised ("" when none) and the rows parsed
RECURSIVE ParseFrom(_, _, _)
ParseFrom(lines, i, output) ==
    IF i > Len(lines) THEN [exc |-> "", output |-> output]
    ELSE IF Len(lines[i]) = 0 THEN [exc |-> "StopIteration", output |-> output]
    ELSE IF Len(lines[i]) < 10 THEN [exc |-> "IndexError", output |-> output]
    ELSE ParseFrom(lines, i + 1, Append(output, RowDict(lines[i])))

_parse_list_output(lines) == ParseFrom(lines, 1, <<>>)

(***************************************************************************)
(* IOCage.exists and IOCage.is_started, on the stdout of 'list -Hl':       *)
(* [exc, value].                                                           *)
(***************************************************************************)
\* line.get('name') == jail.name if jail.name else jail.uuid, which Python
\* reads as (line.get('name') == jail.name) if jail.name else jail.uuid
ExistsTest(line, jail) == IF TruthyStr(jail.name) THEN line.name = jail.name
                          ELSE TruthyStr(jail.uuid)

exists(lines, jail) ==
    LET r == _parse_list_output(lines) IN
    IF r.exc = "StopIteration" THEN [exc |-> "", value |-> FALSE]
    ELSE IF r.exc /= "" THEN [exc |-> r.exc, value |-> FALSE]
    ELSE [exc |-> "",
          value |-> \E i \in 1..Len(r.output) : ExistsTest(r.output[i], jail)]

StartedTest(line, jail) == line.name = jail.name /\ line.state = "up"

is_started(lines, jail) ==
    LET r == _parse_list_output(lines) IN
    IF r.exc /= "" THEN [exc |-> r.exc, value |-> FALSE]
    ELSE [exc |-> "",
          value |-> \E i \in 1..Len(r.output) : StartedTest(r.output[i], jail)]

(***************************************************************************)
(* The external commands.  A command is the argument vector run_command    *)
(* gets; an operand that is None is dropped from the vector, which the     *)
(* record keeps as None; rc is the exit status the command came back with. *)
(***************************************************************************)
NoCmd == [op |-> "", target |-> "", k |-> "", v |-> "", n |-> "", u |-> "",
          src |-> "", kv |-> {}, rc |-> 0]

\* the commands that change the manager
Mutating == {"activate", "create", "set", "start", "stop", "destroy"}

\* the release a jail created from a template or created empty reports
TemplateRelease == "11.2-RELEASE"
EmptyRelease == "EMPTY"

\* -r release, else -t template, else -e: the release the manager gives the jail
CreateSource(jail) == IF TruthyStr(jail.release) THEN jail.release
                      ELSE IF TruthyStr(jail.template) THEN TemplateRelease
                      ELSE IF jail.empty THEN EmptyRelease ELSE ""

\* the k=v arguments of create: the properties with a true key and value
CreateProps(jail) ==
    IF jail.properties.isNone THEN {}
    ELSE {<<k, Format(jail.properties.d[k])>> : k \in {x \in Keys : Truthy(jail.properties.d[x])}}

\* IOCage.create: the command
CreateCmd(jail) == [NoCmd EXCEPT !.op = "create",
                                 !.n = IF TruthyStr(jail.name) THEN jail.name ELSE None,
                                 !.u = IF TruthyStr(jail.uuid) THEN jail.uuid ELSE None,
                                 !.src = CreateSource(jail),
                                 !.kv = CreateProps(jail)]

\* the command a run at position pcv issues next
PendingCmd(p, pcv) ==
    LET jail == Jail(p)
        key == KeyOrder[pcv.i]
    IN CASE pcv.op \in {"is_activated", "get_activated_zpool"} -> [NoCmd EXCEPT !.op = "get -p"]
         [] pcv.op = "activate" -> [NoCmd EXCEPT !.op = "activate", !.target = p.zpool]
         [] pcv.op \in {"exists", "is_started"} -> [NoCmd EXCEPT !.op = "list"]
         [] pcv.op = "create" -> CreateCmd(jail)
         [] pcv.op \in {"destroy", "start", "stop"} ->
                [NoCmd EXCEPT !.op = pcv.op, !.target = NameOrUuid(jail)]
         [] pcv.op = "has_changed_properties" ->
                [NoCmd EXCEPT !.op = "get", !.k = key, !.target = NameOrUuid(jail)]
         [] pcv.op = "set_properties_get" ->
                [NoCmd EXCEPT !.op = "get", !.k = key, !.target = jail.name]
         [] pcv.op = "set_properties_set" ->
                [NoCmd EXCEPT !.op = "set", !.k = key,
                              !.v = Format(jail.properties.d[key]),
                              !.target = NameOrUuid(jail)]
         [] pcv.op = "get_properties" ->
                [NoCmd EXCEPT !.op = "get", !.k = "all", !.target = NameOrUuid(jail)]

\* the positions at which a run issues a command
CommandOps == {"is_activated", "get_activated_zpool", "activate", "exists", "is_started",
               "create", "destroy", "start", "stop", "has_changed_properties",
               "set_properties_get", "set_properties_set", "get_properties"}

\* the jail a create command makes: iocage names it by -n, and by -u without -n
CreateId(c) == IF c.n /= None THEN c.n ELSE c.u

\* the manager exits non-zero: no such jail, no jail operand, or the jail exists already
MgrRejects(c, js) ==
    CASE c.op \in {"get", "set", "start", "stop", "destroy"} ->
             c.target \notin JailIds \/ ~js[c.target].present
      [] c.op = "create" -> CreateId(c) \notin JailIds \/ js[CreateId(c)].present
      [] OTHER -> FALSE

\* the jails after the manager has run command c
MgrApply(c, js) ==
    CASE c.op = "create" ->
             [js EXCEPT ![CreateId(c)] =
                 [present |-> TRUE, up |-> FALSE, release |-> c.src,
                  props |-> [k \in Keys |->
                               IF \E kv \in c.kv : kv[1] = k
                               THEN (CHOOSE kv \in c.kv : kv[1] = k)[2]
                               ELSE DefaultProps[k]]]]
      [] c.op = "start" -> [js EXCEPT ![c.target].up = TRUE]
      [] c.op = "stop" -> [js EXCEPT ![c.target].up = FALSE]
      [] c.op = "destroy" -> [js EXCEPT ![c.target] = NoJail]
      [] c.op = "set" -> [js EXCEPT ![c.target].props[c.k] = c.v]
      [] OTHER -> js

(***************************************************************************)
(* run_module: the control flow.  A position is [op, blk, i, z]: the       *)
(* IOCage method whose command comes next, the if-block of run_module it   *)
(* is called from (0: the zpool block, 1..5: the five state blocks, 6: the *)
(* final block), the index of the property a loop is at, and the zpool the *)
(* final block has read.  A continuation is [pc, msg]: the next position   *)
(* and the message run_module appends on the way ("" when none).           *)
(***************************************************************************)
P(op, blk, i) == [op |-> op, blk |-> blk, i |-> i, z |-> ""]

Go(pcv, msg) == [pc |-> pcv, msg |-> msg]

Done == P("done", 6, 0)

\* an uncaught exception ends the run
Raised(exc) == [op |-> "raised", blk |-> 0, i |-> 0, z |-> exc]

\* if iocage.exists(jail): result.update(...)
Final == P("exists", 6, 0)

\* if jail.state == "absent" and iocage.exists(jail):
Block5(jail) == IF jail.state = "absent" THEN P("exists", 5, 0) ELSE Final

\* if jail.state == "present" and iocage.is_started(jail):
Block4(jail) == IF jail.state = "present" THEN P("is_started", 4, 0) ELSE Block5(jail)

\* if jail.state == "started" and iocage.is_started(jail) and iocage.has_changed_properties(jail):
Block3(jail) == IF jail.state = "started" THEN P("is_started", 3, 0) ELSE Block4(jail)

\* if jail.state == "started" and not iocage.is_started(jail):
Block2(jail) == IF jail.state = "started" THEN P("is_started", 2, 0) ELSE Block3(jail)

\* if (jail.state == "present" or jail.state == "started") and not iocage.exists(jail):
Block1(jail) == IF jail.state = "present" \/ jail.state = "started"
                THEN P("exists", 1, 0) ELSE Block2(jail)

\* if iocage.zpool and not iocage.is_activated(iocage.zpool):
Entry(p) == IF TruthyStr(p.zpool) THEN P("is_activated", 0, 0) ELSE Block1(Jail(p))

\* for k, v in jail.properties.items(): if k and v: -- the next such index from i, 0 when none
NextKey(d, i) == IF \E j \in i..Len(KeyOrder) : Truthy(d[KeyOrder[j]])
                 THEN CHOOSE j \in i..Len(KeyOrder) :
                          /\ Truthy(d[KeyOrder[j]])
                          /\ \A h \in i..(j - 1) : ~Truthy(d[KeyOrder[h]])
                 ELSE 0

\* set_properties has returned
AfterSet(jail, blk) ==
    CASE blk = 2 -> Go(P("start", 2, 0), "")
      [] blk = 3 -> Go(P("start", 3, 0), "")
      [] blk = 4 -> Go(Block5(jail), "stopped")

\* a set_properties that sets every property without reading it first
SetAtNoGet(jail, blk, i) ==
    IF NextKey(jail.properties.d, i) = 0 THEN AfterSet(jail, blk)
    ELSE Go(P("set_properties_set", blk, NextKey(jail.properties.d, i)), "")

\* set_properties is at property i, or past the last one
SetAt(jail, blk, i) ==
    IF NextKey(jail.properties.d, i) = 0 THEN AfterSet(jail, blk)
    ELSE Go(P("set_properties_get", blk, NextKey(jail.properties.d, i)), "")

\* iocage.set_properties(jail) is called
SetStart(jail, blk) ==
    IF jail.properties.isNone THEN Go(Raised("AttributeError"), "")
    ELSE SetAt(jail, blk, 1)

\* a restart block that sets the properties without the stop before them
AfterHcpNoStop(jail, blk, c) ==
    CASE blk = 2 -> IF c THEN SetStart(jail, 2) ELSE Go(P("start", 2, 0), "")
      [] blk = 3 -> IF c THEN SetStart(jail, 3) ELSE Go(Block4(jail), "")
      [] blk = 4 -> IF c THEN SetStart(jail, 4) ELSE Go(Block5(jail), "stopped")

\* has_changed_properties has returned c
AfterHcp(jail, blk, c) ==
    CASE blk = 2 -> IF c THEN SetStart(jail, 2) ELSE Go(P("start", 2, 0), "")
      [] blk = 3 -> IF c THEN Go(P("stop", 3, 0), "") ELSE Go(Block4(jail), "")
      [] blk = 4 -> IF c THEN SetStart(jail, 4) ELSE Go(Block5(jail), "stopped")

\* has_changed_properties is at property i, or past the last one
HcpAt(jail, blk, i) ==
    IF NextKey(jail.properties.d, i) = 0 THEN AfterHcp(jail, blk, FALSE)
    ELSE Go(P("has_changed_properties", blk, NextKey(jail.properties.d, i)), "")

\* iocage.has_changed_properties(jail) is called
HcpStart(jail, blk) ==
    IF jail.properties.isNone THEN AfterHcp(jail, blk, FALSE)
    ELSE HcpAt(jail, blk, 1)

\* exists has returned e
AfterExists(jail, blk, e) ==
    CASE blk = 1 -> IF ~e THEN Go(P("create", 1, 0), "") ELSE Go(Block2(jail), "")
      [] blk = 5 -> IF e THEN Go(P("is_started", 5, 0), "") ELSE Go(Final, "")
      [] blk = 6 -> IF e THEN Go(P("get_activated_zpool", 6, 0), "") ELSE Go(Done, "")

\* is_started has returned st
AfterIsStarted(jail, blk, st) ==
    CASE blk = 2 -> IF ~st THEN HcpStart(jail, 2) ELSE Go(Block3(jail), "")
      [] blk = 3 -> IF st THEN HcpStart(jail, 3) ELSE Go(Block4(jail), "")
      [] blk = 4 -> IF st THEN Go(P("stop", 4, 0), "") ELSE Go(Block5(jail), "")
      [] blk = 5 -> IF st THEN Go(P("stop", 5, 0), "") ELSE Go(P("destroy", 5, 0), "")

\* stop has returned
AfterStop(jail, blk) ==
    CASE blk = 3 -> SetStart(jail, 3)
      [] blk = 4 -> HcpStart(jail, 4)
      [] blk = 5 -> Go(P("destroy", 5, 0), "stopped")

\* start has returned
AfterStart(jail, blk) ==
    CASE blk = 2 -> Go(Block3(jail), "started")
      [] blk = 3 -> Go(Block4(jail), "started")

(***************************************************************************)
(* The result dict.                                                        *)
(***************************************************************************)
NoAttrs == [has |-> FALSE, name |-> "", uuid |-> "", zpool |-> "", release |-> "",
            state |-> "", properties |-> [k \in {} |-> ""]]

\* result = dict(changed=False, message='')
NewResult == [changed |-> FALSE, failed |-> FALSE, message |-> <<>>, attrs |-> NoAttrs]

\* a block that assigns result['changed'] whether or not it has acted
RecordAssigns(res, msg, of) ==
    IF msg = "" THEN [res EXCEPT !.changed = FALSE]
    ELSE [res EXCEPT !.changed = TRUE,
                     !.message = Append(@, [what |-> msg, of |-> of])]

\* result['changed'] = True; the message joined to result['message']: the
\* message is kept as the sequence of its parts, [what, of]
Record(res, msg, of) ==
    IF msg = "" THEN res
    ELSE [res EXCEPT !.changed = TRUE,
                     !.message = Append(@, [what |-> msg, of |-> of])]

\* IOCage._add_line_to_properties for every line of 'get all': items[0] -> items[1]
PropertiesGot(lines) ==
    [k \in {lines[i][1] : i \in 1..Len(lines)} |->
        lines[CHOOSE i \in 1..Len(lines) :
                  lines[i][1] = k /\ \A h \in (i + 1)..Len(lines) : lines[h][1] /= k][2]]

(***************************************************************************)
(* The inputs: the caller's parameters and the manager's state.            *)
(***************************************************************************)
\* (name, uuid) as the caller gives them: the name, the uuid, or both
Idents == {<<"j1", None>>, <<None, "u1">>, <<"j1", "u1">>}

NoProperties == [isNone |-> TRUE, d |-> [k \in Keys |-> PyNone]]

\* properties: absent, or a dict with every suboption (None when not given)
PropertySpace ==
    {NoProperties} \cup
    {[isNone |-> FALSE, d |-> [k \in Keys |-> IF k = "exec_timeout" THEN t ELSE n]] :
        t \in {PyNone} \cup {PyInt(x) : x \in 0..MaxInt},
        n \in {PyNone, PyStr("a")}}

\* the caller's parameters, and with them whether the caller asked for check mode
ParamSpace ==
    {[name |-> id[1], uuid |-> id[2], state |-> st, release |-> rel, template |-> tpl,
      empty |-> em, properties |-> pr, zpool |-> zp, check_mode |-> cm] :
        id \in Idents, st \in StateChoices, rel \in {None, "12.0-RELEASE"},
        tpl \in {None, "tpl"}, em \in BOOLEAN, pr \in PropertySpace,
        zp \in {None, "zroot"}, cm \in BOOLEAN}

NoParams == [name |-> None, uuid |-> None, state |-> "", release |-> None,
             template |-> None, empty |-> FALSE, properties |-> NoProperties,
             zpool |-> None, check_mode |-> FALSE]

\* a jail the manager holds before the first run
JailSpace ==
    {[present |-> TRUE, up |-> u, release |-> TemplateRelease,
      props |-> [k \in Keys |-> IF k = "exec_timeout" THEN t ELSE n]] :
        u \in BOOLEAN, t \in {"60", "1"}, n \in {"none", "a"}}

\* the rows a listing can hold besides the jails' rows
NoiseSpace == {<<>>, <<ShortRow>>, <<BlankRow>>}

Snapshot == [jails |-> jails, pool |-> pool]

NoSnapshot == [jails |-> [id \in JailIds |-> NoJail], pool |-> ""]

Init ==
    /\ \E p \in ParamSpace :
         /\ params = [r \in Runs |-> IF r = 1 THEN ModuleParams(p) ELSE NoParams]
         /\ \E tj \in {NoJail} \cup JailSpace :
            \E oj \in {NoJail, [NoJail EXCEPT !.present = TRUE, !.up = TRUE,
                                              !.release = TemplateRelease]} :
                jails = [id \in JailIds |->
                            IF id = NameOrUuid(Jail(p)) THEN tj
                            ELSE IF id = "j2" THEN oj ELSE NoJail]
    /\ pool \in {"zroot", "tank"}
    /\ noise = <<>>
    /\ pc = [r \in Runs |-> IF r = 1 THEN P("main", 0, 0) ELSE P("off", 0, 0)]
    /\ result = [r \in Runs |-> NewResult]
    /\ cmds = [r \in Runs |-> <<>>]
    /\ obs0 = [r \in Runs |-> NoSnapshot]

(***************************************************************************)
(* The steps of a run.                                                     *)
(***************************************************************************)
\* the run issues its pending command c and the manager runs it
Issue(r, c) ==
    /\ ~MgrRejects(c, jails)
    /\ cmds' = [cmds EXCEPT ![r] = Append(@, c)]
    /\ jails' = MgrApply(c, jails)
    /\ pool' = IF c.op = "activate" THEN c.target ELSE pool

\* the run goes on as the continuation g says
Continue(r, g) ==
    /\ pc' = [pc EXCEPT ![r] = g.pc]
    /\ result' = [result EXCEPT ![r] =
                     Record(@, g.msg, IF g.msg = "activated" THEN params[r].zpool
                                      ELSE params[r].name)]

\* a main that checks the parameters only where run_module builds the Jail,
\* after the pool step
MainChecksAfterPool(r) ==
    /\ pc[r].op = "main"
    /\ obs0' = [obs0 EXCEPT ![r] = Snapshot]
    /\ IF AnsibleModule(params[r])
       THEN /\ pc' = [pc EXCEPT ![r] = IF params[r].check_mode THEN P("check_mode", 0, 0)
                                        ELSE Entry(params[r])]
            /\ result' = [result EXCEPT ![r] = NewResult]
            /\ UNCHANGED <<pool, cmds>>
       ELSE /\ pc' = [pc EXCEPT ![r] = P("invalid", 0, 0)]
            /\ IF TruthyStr(params[r].zpool) /\ pool /= params[r].zpool
               THEN /\ cmds' = [cmds EXCEPT ![r] =
                                   <<[NoCmd EXCEPT !.op = "get -p"],
                                     [NoCmd EXCEPT !.op = "activate",
                                                   !.target = params[r].zpool]>>]
                    /\ pool' = params[r].zpool
                    /\ result' = [result EXCEPT ![r] =
                                     Record([NewResult EXCEPT !.failed = TRUE],
                                            "activated", params[r].zpool)]
               ELSE /\ UNCHANGED <<pool, cmds>>
                    /\ result' = [result EXCEPT ![r] = [NewResult EXCEPT !.failed = TRUE]]
    /\ UNCHANGED <<jails, noise, params>>

\* main: AnsibleModule(...) checks the parameters; in check mode main exits with
\* the untouched result, else run_module starts
Main(r) ==
    /\ pc[r].op = "main"
    /\ pc' = [pc EXCEPT ![r] =
                 IF ~AnsibleModule(params[r]) THEN P("invalid", 0, 0)
                 ELSE IF params[r].check_mode THEN P("check_mode", 0, 0)
                 ELSE Entry(params[r])]
    /\ result' = [result EXCEPT ![r] = [NewResult EXCEPT !.failed = ~AnsibleModule(params[r])]]
    /\ obs0' = [obs0 EXCEPT ![r] = Snapshot]
    /\ UNCHANGED <<jails, pool, noise, params, cmds>>

\* the same spec is run again once the first run has completed
Rerun ==
    /\ pc[1].op = "done"
    /\ pc[2].op = "off"
    /\ params' = [params EXCEPT ![2] = params[1]]
    /\ pc' = [pc EXCEPT ![2] = P("main", 0, 0)]
    /\ UNCHANGED <<jails, pool, noise, result, cmds, obs0>>

\* an is_activated that compares stdout as it came, with its newline
IsActivatedUnstripped(r) ==
    /\ pc[r].op = "is_activated"
    /\ Issue(r, PendingCmd(params[r], pc[r]))
    /\ Continue(r, Go(P("activate", 0, 0), ""))
    /\ UNCHANGED <<noise, params, obs0>>

\* IOCage.is_activated (get_activated_zpool: 'get -p')
IsActivated(r) ==
    /\ pc[r].op = "is_activated"
    /\ Issue(r, PendingCmd(params[r], pc[r]))
    /\ Continue(r, IF pool = params[r].zpool THEN Go(Block1(Jail(params[r])), "")
                   ELSE Go(P("activate", 0, 0), ""))
    /\ UNCHANGED <<noise, params, obs0>>

\* IOCage.activate
Activate(r) ==
    /\ pc[r].op = "activate"
    /\ Issue(r, PendingCmd(params[r], pc[r]))
    /\ Continue(r, Go(Block1(Jail(params[r])), "activated"))
    /\ UNCHANGED <<noise, params, obs0>>

\* IOCage.exists ('list -Hl')
Exists(r) ==
    /\ pc[r].op = "exists"
    /\ Issue(r, PendingCmd(params[r], pc[r]))
    /\ \E ns \in NoiseSpace :
         LET e == exists(ListStdout(jails, ns), Jail(params[r])) IN
         /\ noise' = ns
         /\ Continue(r, IF e.exc /= "" THEN Go(Raised(e.exc), "")
                        ELSE AfterExists(Jail(params[r]), pc[r].blk, e.value))
    /\ UNCHANGED <<params, obs0>>

\* IOCage.is_started ('list -Hl')
IsStarted(r) ==
    /\ pc[r].op = "is_started"
    /\ Issue(r, PendingCmd(params[r], pc[r]))
    /\ \E ns \in NoiseSpace :
         LET st == is_started(ListStdout(jails, ns), Jail(params[r])) IN
         /\ noise' = ns
         /\ Continue(r, IF st.exc /= "" THEN Go(Raised(st.exc), "")
                        ELSE AfterIsStarted(Jail(params[r]), pc[r].blk, st.value))
    /\ UNCHANGED <<params, obs0>>

\* IOCage.create
Create(r) ==
    /\ pc[r].op = "create"
    /\ Issue(r, PendingCmd(params[r], pc[r]))
    /\ Continue(r, Go(Block2(Jail(params[r])), "created"))
    /\ UNCHANGED <<noise, params, obs0>>

\* IOCage.start
Start(r) ==
    /\ pc[r].op = "start"
    /\ Issue(r, PendingCmd(params[r], pc[r]))
    /\ Continue(r, AfterStart(Jail(params[r]), pc[r].blk))
    /\ UNCHANGED <<noise, params, obs0>>

\* IOCage.stop
Stop(r) ==
    /\ pc[r].op = "stop"
    /\ Issue(r, PendingCmd(params[r], pc[r]))
    /\ Continue(r, AfterStop(Jail(params[r]), pc[r].blk))
    /\ UNCHANGED <<noise, params, obs0>>

\* IOCage.destroy
Destroy(r) ==
    /\ pc[r].op = "destroy"
    /\ Issue(r, PendingCmd(params[r], pc[r]))
    /\ Continue(r, Go(Final, "destroyed"))
    /\ UNCHANGED <<noise, params, obs0>>

\* IOCage.has_changed_properties: one 'get k' of its loop
HasChangedProperties(r) ==
    LET jail == Jail(params[r])
        c == PendingCmd(params[r], pc[r])
    IN /\ pc[r].op = "has_changed_properties"
       /\ Issue(r, c)
       /\ Continue(r, IF StrNe(jails[c.target].props[c.k], jail.properties.d[c.k])
                      THEN AfterHcp(jail, pc[r].blk, TRUE)
                      ELSE HcpAt(jail, pc[r].blk, pc[r].i + 1))
       /\ UNCHANGED <<noise, params, obs0>>

\* IOCage.set_properties: the 'get k' of one round of its loop
SetPropertiesGet(r) ==
    LET jail == Jail(params[r])
        c == PendingCmd(params[r], pc[r])
    IN /\ pc[r].op = "set_properties_get"
       /\ Issue(r, c)
       /\ Continue(r, IF StrNe(jails[c.target].props[c.k], jail.properties.d[c.k])
                      THEN Go(P("set_properties_set", pc[r].blk, pc[r].i), "")
                      ELSE SetAt(jail, pc[r].blk, pc[r].i + 1))
       /\ UNCHANGED <<noise, params, obs0>>

\* IOCage.set_properties: the 'set k=v' of one round of its loop
SetPropertiesSet(r) ==
    /\ pc[r].op = "set_properties_set"
    /\ Issue(r, PendingCmd(params[r], pc[r]))
    /\ Continue(r, SetAt(Jail(params[r]), pc[r].blk, pc[r].i + 1))
    /\ UNCHANGED <<noise, params, obs0>>

\* the final block: "zpool": iocage.get_activated_zpool()
GetActivatedZpool(r) ==
    /\ pc[r].op = "get_activated_zpool"
    /\ Issue(r, PendingCmd(params[r], pc[r]))
    /\ pc' = [pc EXCEPT ![r] = [P("get_properties", 6, 0) EXCEPT !.z = pool]]
    /\ UNCHANGED <<noise, params, result, obs0>>

\* the final block: "properties": iocage.get_properties(jail), then result.update(...)
GetProperties(r) ==
    LET jail == Jail(params[r])
        c == PendingCmd(params[r], pc[r])
        lines == GetAllStdout(jails[c.target])
    IN /\ pc[r].op = "get_properties"
       /\ Issue(r, c)
       /\ IF \E i \in 1..Len(lines) : Len(lines[i]) < 2
          THEN /\ pc' = [pc EXCEPT ![r] = Raised("IndexError")]
               /\ UNCHANGED result
          ELSE /\ pc' = [pc EXCEPT ![r] = Done]
               /\ result' = [result EXCEPT ![r].attrs =
                                [has |-> TRUE, name |-> jail.name, uuid |-> jail.uuid,
                                 zpool |-> pc[r].z, release |-> jail.release,
                                 state |-> jail.state,
                                 properties |-> PropertiesGot(lines)]]
       /\ UNCHANGED <<noise, params, obs0>>

\* a stop issued with check_rc=False: its non-zero exit is not looked at and
\* run_module goes on as after a stop that worked
CommandFailedStopUnchecked(r) ==
    /\ pc[r].op \in CommandOps
    /\ cmds' = [cmds EXCEPT ![r] = Append(@, [PendingCmd(params[r], pc[r]) EXCEPT !.rc = 1])]
    /\ IF pc[r].op = "stop"
       THEN Continue(r, AfterStop(Jail(params[r]), pc[r].blk))
       ELSE /\ pc' = [pc EXCEPT ![r] =
                        [op |-> "failed", blk |-> pc[r].blk, i |-> 0,
                         z |-> IF MgrRejects(PendingCmd(params[r], pc[r]), jails)
                               THEN "rejected" ELSE "fault"]]
            /\ result' = [result EXCEPT ![r].failed = TRUE]
    /\ UNCHANGED <<jails, pool, noise, params, obs0>>

\* run_command(..., check_rc=True) on a non-zero exit: fail_json ends the run.
\* The manager rejects the command, or the command fails for a reason of its own.
CommandFailed(r) ==
    /\ pc[r].op \in CommandOps
    /\ cmds' = [cmds EXCEPT ![r] = Append(@, [PendingCmd(params[r], pc[r]) EXCEPT !.rc = 1])]
    /\ pc' = [pc EXCEPT ![r] =
                 [op |-> "failed", blk |-> pc[r].blk, i |-> 0,
                  z |-> IF MgrRejects(PendingCmd(params[r], pc[r]), jails)
                        THEN "rejected" ELSE "fault"]]
    /\ result' = [result EXCEPT ![r].failed = TRUE]
    /\ UNCHANGED <<jails, pool, noise, params, obs0>>

Next ==
    \/ Rerun
    \/ \E r \in Runs :
         \/ Main(r)
         \/ IsActivated(r)
         \/ Activate(r)
         \/ Exists(r)
         \/ Create(r)
         \/ IsStarted(r)
         \/ HasChangedProperties(r)
         \/ SetPropertiesGet(r)
         \/ SetPropertiesSet(r)
         \/ Start(r)
         \/ Stop(r)
         \/ Destroy(r)
         \/ GetActivatedZpool(r)
         \/ GetProperties(r)
         \/ CommandFailed(r)

Spec == Init /\ [][Next]_vars

(***************************************************************************)
(* Two runs of run_module at once, for different containers, against the   *)
(* same manager: both mains have built their module and each run_module    *)
(* takes its steps, one external command at a time, in any interleaving.   *)
(* The listings hold the jails' rows only and a command fails only when    *)
(* the manager rejects it, so that what a run meets comes from the manager *)
(* and the other run alone.                                                *)
(***************************************************************************)
\* properties: absent, or notes alone
ConcPropertySpace ==
    {pr \in PropertySpace : pr.isNone \/ (pr.d["exec_timeout"] = PyNone /\ pr.d["notes"] /= PyNone)}

\* the specs of the first run: a valid spec, not in check mode
ConcParamSpace ==
    {q \in ParamSpace : /\ q.release = None /\ q.template = "tpl" /\ ~q.empty
                        /\ q.properties \in ConcPropertySpace
                        /\ ~q.check_mode}

\* the specs of the second run: the same, for the container named j2
OtherParamSpace ==
    {[q EXCEPT !.name = "j2", !.uuid = None] : q \in ConcParamSpace}

\* a jail the manager holds before the runs: absent, stopped or up
ConcJailSpace == {NoJail} \cup {j \in JailSpace : j.props = DefaultProps}

ConcInit ==
    /\ \E p1 \in ConcParamSpace :
       \E p2 \in OtherParamSpace :
         /\ params = [r \in Runs |-> IF r = 1 THEN ModuleParams(p1) ELSE ModuleParams(p2)]
         /\ pc = [r \in Runs |-> IF r = 1 THEN Entry(p1) ELSE Entry(p2)]
         /\ \E tj \in ConcJailSpace :
            \E oj \in ConcJailSpace :
                jails = [id \in JailIds |->
                            IF id = NameOrUuid(Jail(p1)) THEN tj
                            ELSE IF id = "j2" THEN oj ELSE NoJail]
    /\ pool \in {"zroot", "tank"}
    /\ noise = <<>>
    /\ result = [r \in Runs |-> NewResult]
    /\ cmds = [r \in Runs |-> <<>>]
    /\ obs0 = [r \in Runs |-> Snapshot]

ConcExists(r) == Exists(r) /\ noise' = <<>>

ConcIsStarted(r) == IsStarted(r) /\ noise' = <<>>

ConcCommandFailed(r) == CommandFailed(r) /\ MgrRejects(PendingCmd(params[r], pc[r]), jails)

ConcNext ==
    \E r \in Runs :
        \/ IsActivated(r)
        \/ Activate(r)
        \/ ConcExists(r)
        \/ Create(r)
        \/ ConcIsStarted(r)
        \/ HasChangedProperties(r)
        \/ SetPropertiesGet(r)
        \/ SetPropertiesSet(r)
        \/ Start(r)
        \/ Stop(r)
        \/ Destroy(r)
        \/ GetActivatedZpool(r)
        \/ GetProperties(r)
        \/ ConcCommandFailed(r)

ConcSpec == ConcInit /\ [][ConcNext]_vars

(***************************************************************************)
(* run_module run on its own: the run of the spec p as a function of the   *)
(* manager's state, one command after the other with no other run between  *)
(* them.  A state of the run is [pc, result, cmds, jails, pool].            *)
(***************************************************************************)
\* where run_module goes on after the command at pcv has worked on js, pl
SoloCont(p, pcv, js, pl) ==
    LET jail == Jail(p)
        c == PendingCmd(p, pcv)
        e == exists(ListStdout(js, <<>>), jail)
        st == is_started(ListStdout(js, <<>>), jail)
    IN CASE pcv.op = "is_activated" ->
                IF pl = p.zpool THEN Go(Block1(jail), "") ELSE Go(P("activate", 0, 0), "")
         [] pcv.op = "activate" -> Go(Block1(jail), "activated")
         [] pcv.op = "exists" ->
                IF e.exc /= "" THEN Go(Raised(e.exc), "")
                ELSE AfterExists(jail, pcv.blk, e.value)
         [] pcv.op = "is_started" ->
                IF st.exc /= "" THEN Go(Raised(st.exc), "")
                ELSE AfterIsStarted(jail, pcv.blk, st.value)
         [] pcv.op = "create" -> Go(Block2(jail), "created")
         [] pcv.op = "start" -> AfterStart(jail, pcv.blk)
         [] pcv.op = "stop" -> AfterStop(jail, pcv.blk)
         [] pcv.op = "destroy" -> Go(Final, "destroyed")
         [] pcv.op = "has_changed_properties" ->
                IF StrNe(js[c.target].props[c.k], jail.properties.d[c.k])
                THEN AfterHcp(jail, pcv.blk, TRUE)
                ELSE HcpAt(jail, pcv.blk, pcv.i + 1)
         [] pcv.op = "set_properties_get" ->
                IF StrNe(js[c.target].props[c.k], jail.properties.d[c.k])
                THEN Go(P("set_properties_set", pcv.blk, pcv.i), "")
                ELSE SetAt(jail, pcv.blk, pcv.i + 1)
         [] pcv.op = "set_properties_set" -> SetAt(jail, pcv.blk, pcv.i + 1)
         [] pcv.op = "get_activated_zpool" ->
                Go([P("get_properties", 6, 0) EXCEPT !.z = pl], "")
         [] pcv.op = "get_properties" -> Go(Done, "")

\* the run issues its pending command: the manager rejects it, or runs it
SoloStep(p, s) ==
    LET c == PendingCmd(p, s.pc)
        g == SoloCont(p, s.pc, s.jails, s.pool)
        res == Record(s.result, g.msg, IF g.msg = "activated" THEN p.zpool ELSE p.name)
    IN IF MgrRejects(c, s.jails)
       THEN [s EXCEPT !.pc = [op |-> "failed", blk |-> s.pc.blk, i |-> 0, z |-> "rejected"],
                      !.cmds = Append(@, [c EXCEPT !.rc = 1]),
                      !.result = [@ EXCEPT !.failed = TRUE]]
       ELSE [pc |-> g.pc,
             cmds |-> Append(s.cmds, c),
             jails |-> MgrApply(c, s.jails),
             pool |-> IF c.op = "activate" THEN c.target ELSE s.pool,
             result |-> IF s.pc.op = "get_properties"
                        THEN [res EXCEPT !.attrs =
                                 [has |-> TRUE, name |-> p.name, uuid |-> p.uuid,
                                  zpool |-> s.pc.z, release |-> p.release,
                                  state |-> p.state,
                                  properties |-> PropertiesGot(GetAllStdout(s.jails[c.target]))]]
                        ELSE res]

\* run_module from the state s to its end
RECURSIVE SoloFrom(_, _)
SoloFrom(p, s) == IF s.pc.op \notin CommandOps THEN s ELSE SoloFrom(p, SoloStep(p, s))

\* run_module(module, result) for the spec p on the manager state snap
SoloRun(p, snap) ==
    SoloFrom(p, [pc |-> Entry(p), result |-> NewResult, cmds |-> <<>>,
                 jails |-> snap.jails, pool |-> snap.pool])

(***************************************************************************)
(* Vocabulary of the properties.                                           *)
(***************************************************************************)
\* the container the spec of run r names
Target(r) == NameOrUuid(Jail(params[r]))

\* run r has run to its end without a failed command or an exception
Completed(r) == pc[r].op = "done"

\* run r has completed and no later run has touched the manager since
AtEnd(r) == Completed(r) /\ \A q \in Runs : q > r => pc[q].op = "off"

\* run r has started run_module
Started(r) == pc[r].op \notin {"off", "main", "invalid", "check_mode"}

\* what the manager held for the container when run r started
Obs(r) == obs0[r].jails[Target(r)]
ObsAbsent(r) == ~Obs(r).present
ObsStopped(r) == Obs(r).present /\ ~Obs(r).up
ObsStarted(r) == Obs(r).present /\ Obs(r).up

\* the operations of the commands of run r that are in the set ops, in order
OpsOf(r, ops) ==
    LET sel == SelectSeq(cmds[r], LAMBDA c : c.op \in ops)
    IN [i \in 1..Len(sel) |-> sel[i].op]

\* the mutating commands of run r on containers (all but activate)
JailOps(r) == OpsOf(r, Mutating \ {"activate"})

\* the pool step of run r has nothing to do
PoolSettled(r) == params[r].zpool = None \/ obs0[r].pool = params[r].zpool

\* the properties the spec of run r asks for (a true key and value)
Desired(r) == IF params[r].properties.isNone THEN {}
              ELSE {k \in Keys : Truthy(params[r].properties.d[k])}

\* the desired properties whose value in the manager was another when run r started
Drifted(r) == {k \in Desired(r) : Obs(r).props[k] /= Format(params[r].properties.d[k])}

\* the spec sets exactly one provisioning source
ExactlyOneSource(p) ==
    \/ p.release /= None /\ p.template = None /\ ~p.empty
    \/ p.release = None /\ p.template /= None /\ ~p.empty
    \/ p.release = None /\ p.template = None /\ p.empty

(***************************************************************************)
(* C1: a run that completes without a command failure leaves the container *)
(* in the desired run state: present -> it exists and is not running,      *)
(* started -> it exists and is running, absent -> it does not exist.       *)
(* Stated as the claim has it; the code breaks it.                         *)
(***************************************************************************)
C1_DesiredRunState ==
    \A r \in Runs :
        AtEnd(r) =>
            LET j == jails[Target(r)] IN
            /\ params[r].state = "present" => j.present /\ ~j.up
            /\ params[r].state = "started" => j.present /\ j.up
            /\ params[r].state = "absent" => ~j.present

(***************************************************************************)
(* C2: idempotence.  When the container a run finds already matches the    *)
(* desired run state, every desired property already has its desired value *)
(* and the pool, if given, is already active, the run issues no mutating   *)
(* command and returns changed = false with an empty message.              *)
(***************************************************************************)
Converged(r) ==
    /\ params[r].state = "present" => ObsStopped(r)
    /\ params[r].state = "started" => ObsStarted(r)
    /\ params[r].state = "absent" => ObsAbsent(r)
    /\ Drifted(r) = {}
    /\ PoolSettled(r)

C2_Idempotent ==
    \A r \in Runs :
        Completed(r) /\ Converged(r) =>
            /\ OpsOf(r, Mutating) = <<>>
            /\ ~result[r].changed
            /\ result[r].message = <<>>

(***************************************************************************)
(* C3: stable convergence.  A run repeated with the same spec against the  *)
(* state the first, completed run left behind issues no mutating command   *)
(* and returns changed = false.                                            *)
(***************************************************************************)
C3_SecondRunUnchanged ==
    Completed(2) => OpsOf(2, Mutating) = <<>> /\ ~result[2].changed

(***************************************************************************)
(* C4: with desired = absent (and nothing to do for the pool) the mutating *)
(* commands are exactly [stop, destroy] for a container found started,     *)
(* exactly [destroy] for one found stopped, and none, with changed =       *)
(* false, for one found absent.                                            *)
(***************************************************************************)
C4_AbsentSequence ==
    \A r \in Runs :
        Completed(r) /\ params[r].state = "absent" /\ PoolSettled(r) =>
            /\ ObsStarted(r) => JailOps(r) = <<"stop", "destroy">>
            /\ ObsStopped(r) => JailOps(r) = <<"destroy">>
            /\ ObsAbsent(r) => JailOps(r) = <<>> /\ ~result[r].changed

(***************************************************************************)
(* C5: with the container found absent and desired = started the mutating  *)
(* commands are create, then any property sets, then one start, and        *)
(* nothing after the start.                                                *)
(***************************************************************************)
C5_CreateThenStart ==
    \A r \in Runs :
        Completed(r) /\ params[r].state = "started" /\ ObsAbsent(r) =>
            LET s == JailOps(r) IN
            /\ Len(s) >= 2
            /\ s[1] = "create"
            /\ s[Len(s)] = "start"
            /\ \A i \in 2..(Len(s) - 1) : s[i] = "set"

(***************************************************************************)
(* C6: with the container found started, exactly one desired property      *)
(* whose current value differs from the desired one, and desired =         *)
(* started, the mutating commands are exactly [stop, set of that property, *)
(* start].                                                                 *)
(***************************************************************************)
C6_RestartCycle ==
    \A r \in Runs :
        Completed(r) /\ params[r].state = "started" /\ ObsStarted(r)
                     /\ Cardinality(Drifted(r)) = 1 =>
            /\ JailOps(r) = <<"stop", "set", "start">>
            /\ \A i \in 1..Len(cmds[r]) : cmds[r][i].op = "set" => cmds[r][i].k \in Drifted(r)

C8_NothingBeforeValidationError ==
    \A r \in Runs :
        pc[r].op = "invalid" =>
            /\ cmds[r] = <<>>
            /\ Snapshot = obs0[r]
            /\ ~result[r].changed

\* a spec that names a pool which is not the active one has been refused
C8_Witness ==
    /\ pc[1].op = "invalid"
    /\ TruthyStr(params[1].zpool)
    /\ pool /= params[1].zpool
    /\ cmds[1] = <<>>

(***************************************************************************)
(* C9: a row of the 'list -Hl' output with fewer than 10 tab-delimited     *)
(* fields (a blank line too) never raises: it is left out of the parsed    *)
(* listing, the well-formed rows are still parsed, and exists and          *)
(* is_started answer from those rows.  Stated as the claim has it; the     *)
(* code breaks it.                                                         *)
(***************************************************************************)
C9_MalformedRowSkipped ==
    \A r \in Runs :
        Started(r) /\ noise /= <<>> =>
            LET lines == ListStdout(jails, noise)
                good == ListStdout(jails, <<>>)
            IN /\ pc[r].op /= "raised"
               /\ _parse_list_output(lines).exc = ""
               /\ _parse_list_output(lines).output = _parse_list_output(good).output
               /\ exists(lines, Jail(params[r])) = exists(good, Jail(params[r]))
               /\ is_started(lines, Jail(params[r])) = is_started(good, Jail(params[r]))

(***************************************************************************)
(* C10: when the caller sets name and leaves uuid unset, the name is used  *)
(* as the identifier: the create command carries the name as the uuid and  *)
(* the returned result's uuid equals the name.  Stated as the claim has    *)
(* it; the code breaks it.                                                 *)
(***************************************************************************)
C10_NameUsedAsUuid ==
    \A r \in Runs :
        Started(r) /\ TruthyStr(params[r].name) /\ ~TruthyStr(params[r].uuid) =>
            /\ \A i \in 1..Len(cmds[r]) :
                   cmds[r][i].op = "create" => cmds[r][i].u = params[r].name
            /\ Completed(r) /\ result[r].attrs.has =>
                   result[r].attrs.uuid = params[r].name

(***************************************************************************)
(* C11: when an external command of a run fails (every command is issued   *)
(* with check_rc=True), the run issues no further command: the failed      *)
(* command is the last one of the run, the run has ended as failed, and    *)
(* the manager holds exactly what the commands that succeeded before it    *)
(* made of the state the run started from (nothing is rolled back).        *)
(***************************************************************************)
\* the manager's state after the succeeded commands of cs, from i on, ran on st
RECURSIVE Replay(_, _, _)
Replay(cs, i, st) ==
    IF i > Len(cs) THEN st
    ELSE Replay(cs, i + 1,
                IF cs[i].rc /= 0 THEN st
                ELSE [jails |-> MgrApply(cs[i], st.jails),
                      pool |-> IF cs[i].op = "activate" THEN cs[i].target ELSE st.pool])

C11_FailureHaltsRun ==
    \A r \in Runs :
        /\ \A i \in 1..Len(cmds[r]) :
               cmds[r][i].rc /= 0 => i = Len(cmds[r]) /\ pc[r].op = "failed"
        /\ pc[r].op = "failed" =>
               /\ Len(cmds[r]) >= 1
               /\ cmds[r][Len(cmds[r])].rc /= 0
               /\ result[r].failed
               /\ Snapshot = Replay(cmds[r], 1, obs0[r])

\* a start has failed after the create before it had worked
C11_Witness ==
    /\ pc[1].op = "failed"
    /\ cmds[1][Len(cmds[1])].op = "start"
    /\ \E i \in 1..(Len(cmds[1]) - 1) : cmds[1][i].op = "create" /\ cmds[1][i].rc = 0
    /\ jails[Target(1)].present
    /\ ~jails[Target(1)].up

(***************************************************************************)
(* C12: the changed flag is monotone and exact.  No step of a run sets     *)
(* result['changed'] back to false once it is true, and when a run has     *)
(* completed changed is true if and only if the run has issued at least    *)
(* one mutating command (activate, create, set, start, stop, destroy).     *)
(***************************************************************************)
C12_ChangedMonotoneExact ==
    [][\A r \in Runs :
          /\ result[r].changed => result'[r].changed
          /\ pc'[r].op = "done" =>
                 (result'[r].changed <=>
                     \E i \in 1..Len(cmds'[r]) : cmds'[r][i].op \in Mutating)]_vars

\* a run has completed with changed set after a stop, and queries after it
C12_Witness ==
    /\ Completed(1)
    /\ result[1].changed
    /\ OpsOf(1, Mutating) = <<"stop">>
    /\ cmds[1][Len(cmds[1])].op = "get"

(***************************************************************************)
(* C13: the result of a completed run carries the final attributes (name,  *)
(* uuid, zpool, release, state, properties) if and only if the container   *)
(* the spec names exists in the manager at the end of the run; after a     *)
(* completed desired = absent run the result carries none of them.         *)
(***************************************************************************)
C13_AttrsIffExists ==
    \A r \in Runs :
        AtEnd(r) =>
            /\ result[r].attrs.has <=> jails[Target(r)].present
            /\ params[r].state = "absent" => ~result[r].attrs.has
            /\ ~result[r].attrs.has => result[r].attrs = NoAttrs

\* an absent run has destroyed its container while another one is listed
C13_Witness ==
    /\ AtEnd(1)
    /\ params[1].state = "absent"
    /\ ObsStarted(1)
    /\ jails["j2"].present
    /\ OpsOf(1, {"destroy"}) = <<"destroy">>
    /\ ~result[1].attrs.has

(***************************************************************************)
(* C14: two runs of run_module for different containers, interleaved at    *)
(* the granularity of external commands against the same manager, do not   *)
(* interfere: each run issues the same sequence of mutating commands and   *)
(* returns the same result as when it runs alone on the state the two      *)
(* started from, and neither fails where it would not fail alone.  Stated  *)
(* as the claim has it; the code breaks it.                                *)
(***************************************************************************)
C14_NoInterference ==
    \A r \in Runs :
        Target(1) /= Target(2) /\ pc[r].op \notin CommandOps =>
            LET alone == SoloRun(params[r], obs0[r]) IN
            /\ SelectSeq(cmds[r], LAMBDA c : c.op \in Mutating)
                   = SelectSeq(alone.cmds, LAMBDA c : c.op \in Mutating)
            /\ result[r] = alone.result
            /\ pc[r].op = "failed" => alone.pc.op = "failed"

(***************************************************************************)
(* C15: with desired = present and the container found present and         *)
(* stopped, the properties are still reconciled: every desired property    *)
(* (a true key and value) whose current value differs from the desired one *)
(* is set, no start, stop, create or destroy is issued, and after the run  *)
(* every desired property has its desired value.  Stated as the claim has  *)
(* it; the code breaks it.                                                 *)
(***************************************************************************)
C15_PresentStoppedReconciles ==
    \A r \in Runs :
        Completed(r) /\ params[r].state = "present" /\ ObsStopped(r) =>
            /\ OpsOf(r, {"start", "stop", "create", "destroy"}) = <<>>
            /\ \A k \in Drifted(r) :
                   \E i \in 1..Len(cmds[r]) : cmds[r][i].op = "set" /\ cmds[r][i].k = k
            /\ AtEnd(r) =>
                   \A k \in Desired(r) :
                       jails[Target(r)].props[k] = Format(params[r].properties.d[k])

(***************************************************************************)
(* C16: with desired = present and the container found present and         *)
(* started, the run issues stop first and only afterwards the set commands *)
(* for the drifted properties; it issues no start, and at the end the      *)
(* container is stopped with every desired property at its desired value.  *)
(* Stated as the claim has it; the code breaks it.                         *)
(***************************************************************************)
C16_PresentStartedStopsThenSets ==
    \A r \in Runs :
        Completed(r) /\ params[r].state = "present" /\ ObsStarted(r) =>
            LET s == JailOps(r) IN
            /\ Len(s) >= 1
            /\ s[1] = "stop"
            /\ \A i \in 2..Len(s) : s[i] = "set"
            /\ {cmds[r][i].k : i \in {j \in 1..Len(cmds[r]) : cmds[r][j].op = "set"}}
                   = Drifted(r)
            /\ AtEnd(r) =>
                   /\ jails[Target(r)].present
                   /\ ~jails[Target(r)].up
                   /\ \A k \in Desired(r) :
                          jails[Target(r)].props[k] = Format(params[r].properties.d[k])

(***************************************************************************)
(* C17: storage pool activation.  When a pool is given and the manager's   *)
(* active pool differs from it, activate is issued exactly once, before    *)
(* any container query or mutation, and changed is set; when the given     *)
(* pool is already active, or no pool is given, activate is never issued   *)
(* and the pool step records no change.                                    *)
(***************************************************************************)
\* run r has left the pool step behind without a failed command in it
PastPool(r) == Started(r) /\ (pc[r].blk >= 1 \/ pc[r].op = "raised")

C17_PoolActivation ==
    \A r \in Runs :
        Started(r) =>
            /\ \A i \in 1..Len(cmds[r]) :
                   cmds[r][i].op = "activate" =>
                       /\ i = 2
                       /\ cmds[r][1].op = "get -p"
                       /\ cmds[r][i].target = params[r].zpool
                       /\ ~PoolSettled(r)
            /\ PastPool(r) /\ ~PoolSettled(r) =>
                   /\ Len(OpsOf(r, {"activate"})) = 1
                   /\ result[r].changed
                   /\ result[r].message[1] = [what |-> "activated", of |-> params[r].zpool]
            /\ PoolSettled(r) =>
                   /\ \A i \in 1..Len(result[r].message) :
                          result[r].message[i].what /= "activated"
                   /\ result[r].changed => JailOps(r) /= <<>>

\* a run has activated the pool it names and gone on to its container
C17_Witness ==
    /\ Completed(1)
    /\ params[1].zpool = "zroot"
    /\ obs0[1].pool = "tank"
    /\ pool = "zroot"
    /\ cmds[1][2].op = "activate"
    /\ cmds[1][3].op = "list"
    /\ result[1].changed

(***************************************************************************)
(* C18: in every run, whatever the desired state, the state the container  *)
(* is found in and the form of its identity (name, or identifier only), no *)
(* property set command is issued while the container is running in the    *)
(* manager.                                                                *)
(***************************************************************************)
C18_NoSetWhileRunning ==
    [][\A r \in Runs :
          /\ Len(cmds'[r]) = Len(cmds[r]) + 1
          /\ cmds'[r][Len(cmds'[r])].op = "set"
          => ~(jails[Target(r)].present /\ jails[Target(r)].up)]_vars

\* in a restart cycle the set has been issued on the stopped container
C18_Witness ==
    /\ pc[1].op = "start"
    /\ pc[1].blk = 3
    /\ ObsStarted(1)
    /\ cmds[1][Len(cmds[1])].op = "set"
    /\ cmds[1][Len(cmds[1])].rc = 0
    /\ ~jails[Target(1)].up

(***************************************************************************)
(* C19: property reconciliation is minimal.  set_properties issues a set   *)
(* for a desired property if and only if its key and value are both true   *)
(* and the manager's current value differs from the desired value as a     *)
(* string; a property with a false value is neither queried nor set, and a *)
(* property already at its desired value is never set.  Stated as the      *)
(* claim has it; the code breaks it.                                       *)
(***************************************************************************)
\* the step appends a command to the commands of run r
Issues(r) == Len(cmds'[r]) = Len(cmds[r]) + 1

\* the command a step appends to the commands of run r
Issued(r) == cmds'[r][Len(cmds'[r])]

\* property k of the container of run r has the value the spec asks for
AtDesired(r, k) == jails[Target(r)].props[k] = Format(params[r].properties.d[k])

C19_MinimalSets ==
    [][\A r \in Runs :
          /\ Issues(r) /\ Issued(r).op \in {"get", "set"} /\ Issued(r).k \in Keys =>
                 Issued(r).k \in Desired(r)
          /\ Issues(r) /\ Issued(r).op = "set" => ~AtDesired(r, Issued(r).k)
          /\ pc[r].op = "set_properties_get" /\ Issues(r) /\ Issued(r).rc = 0 =>
                 (pc'[r].op = "set_properties_set" <=> ~AtDesired(r, Issued(r).k))]_vars

(***************************************************************************)
(* C20: the message of a completed run has one entry per mutating action   *)
(* taken (activate, create, set, stop, start, destroy), in the order the   *)
(* actions were executed; a stop, set, start restart cycle is reported as  *)
(* a stop, a set and a start in that order.  Stated as the claim has it;   *)
(* the code breaks it.                                                     *)
(***************************************************************************)
\* the message entry that reports the mutating command op
EntryFor(op) ==
    CASE op = "activate" -> "activated"
      [] op = "create" -> "created"
      [] op = "set" -> "set"
      [] op = "stop" -> "stopped"
      [] op = "start" -> "started"
      [] op = "destroy" -> "destroyed"

C20_MessagePerAction ==
    \A r \in Runs :
        Completed(r) =>
            LET acts == OpsOf(r, Mutating) IN
            /\ Len(result[r].message) = Len(acts)
            /\ \A i \in 1..Len(acts) : result[r].message[i].what = EntryFor(acts[i])

(***************************************************************************)
(* C21: when the container exists at the end of a completed run, the       *)
(* release and the state in the result are the values observed in the      *)
(* manager after the last action: the release the existing container is    *)
(* based on and its actual run state, also for a spec whose release        *)
(* differs from the release of a container that exists already.  Stated as *)
(* the claim has it; the code breaks it.                                   *)
(***************************************************************************)
C21_ResultIsObserved ==
    \A r \in Runs :
        AtEnd(r) /\ jails[Target(r)].present /\ result[r].attrs.has =>
            /\ result[r].attrs.release = jails[Target(r)].release
            /\ result[r].attrs.state \in {"present", "started"}
            /\ result[r].attrs.state = "started" <=> jails[Target(r)].up

(***************************************************************************)
(* C22: the observed state is queried again around every state-changing    *)
(* action.  In every run each mutating command (create, set, start, stop,  *)
(* destroy) comes right after a query of the manager issued after the      *)
(* mutating command before it, and is followed by a query before the next  *)
(* mutating command or the end of the run; no two mutating commands are    *)
(* issued back to back.  Stated as the claim has it; the code breaks it.   *)
(***************************************************************************)
\* the commands that only read the manager
Queries == {"list", "get", "get -p"}

C22_QueriedAroundActions ==
    \A r \in Runs :
        \A i \in 1..Len(cmds[r]) :
            cmds[r][i].op \in Mutating \ {"activate"} =>
                /\ i > 1
                /\ cmds[r][i - 1].op \in Queries
                /\ i < Len(cmds[r]) => cmds[r][i + 1].op \in Queries
                /\ Completed(r) => i < Len(cmds[r])

(***************************************************************************)
(* C22, as amended: each create, stop and set command comes right after a  *)
(* query of the manager (a set right after the get of its property); a     *)
(* start comes right after a query or right after the last set of the      *)
(* property reconciliation before it, and a destroy right after a query or *)
(* right after the stop before it, so that the only mutating commands      *)
(* issued back to back are set, start and stop, destroy.  A completed run  *)
(* ends with a query after its last mutating command.                      *)
(***************************************************************************)
C22_QueriedBeforeActions ==
    \A r \in Runs :
        /\ \A i \in 1..Len(cmds[r]) :
               LET c == cmds[r][i] IN
               c.op \in Mutating \ {"activate"} =>
                   /\ i > 1
                   /\ c.op \in {"create", "stop"} => cmds[r][i - 1].op \in Queries
                   /\ c.op = "set" => cmds[r][i - 1].op = "get" /\ cmds[r][i - 1].k = c.k
                   /\ c.op = "start" => cmds[r][i - 1].op \in Queries \cup {"set"}
                   /\ c.op = "destroy" => cmds[r][i - 1].op \in Queries \cup {"stop"}
        /\ Completed(r) => cmds[r][Len(cmds[r])].op \in Queries

\* a restart cycle has completed: its start came right after its set
C22_Witness ==
    /\ Completed(1)
    /\ JailOps(1) = <<"stop", "set", "start">>
    /\ \E i \in 2..Len(cmds[1]) : cmds[1][i].op = "start" /\ cmds[1][i - 1].op = "set"
    /\ cmds[1][Len(cmds[1])].op = "get"

(***************************************************************************)
(* C23: in every single run, whether the spec identifies the container by  *)
(* name or only by identifier and whatever other containers the manager    *)
(* lists, each mutating command is issued only when its precondition holds *)
(* in the manager's actual state: create only when no container with the   *)
(* spec's identity exists (and always when desired is present or started   *)
(* and none exists), start only when the container exists and is not       *)
(* running, stop only when it is running, destroy only when it exists.     *)
(* Stated as the claim has it; the code breaks it.                         *)
(***************************************************************************)
C23_PreconditionsHold ==
    [][\A r \in Runs :
          LET j == jails[Target(r)] IN
          /\ Issues(r) /\ Issued(r).op = "create" => ~j.present
          /\ Issues(r) /\ Issued(r).op = "start" => j.present /\ ~j.up
          /\ Issues(r) /\ Issued(r).op = "stop" => j.present /\ j.up
          /\ Issues(r) /\ Issued(r).op = "destroy" => j.present
          /\ pc[r].op = "exists" /\ pc[r].blk = 1 /\ ~j.present
             /\ Issues(r) /\ Issued(r).rc = 0 /\ noise' = <<>>
                 => pc'[r].op = "create"]_vars
=============================================================================
